---- MODULE Spec2Model ----
(***************************************************************************)
(* Model of the filter/highlight extension of the PDF viewer:              *)
(*   FilterHighlightOverlay  (src/unnamed/part_001)                        *)
(*   PDFFilterView           (src/web/pdf_filter_view.js)                  *)
(* The event loop is modelled turn by turn: one action per handler run     *)
(* (a public call, a click, a timer callback, an animation-frame callback) *)
(* plus the passage of time.                                               *)
(***************************************************************************)
EXTENDS Integers, Sequences, FiniteSets, TLC

VARIABLES
  currentOverlay,  \* FilterHighlightOverlay.#currentOverlay: 0 (null) or an element id
  elements,        \* every overlay element created so far, by id (index)
  timers,          \* pending setTimeout callbacks, in the order they were scheduled
  rafQueue,        \* pending requestAnimationFrame callbacks (element ids), in order
  nCalls,          \* number of public calls and clicks made so far
  turn,            \* the handler that ran last: its kind, its arguments, whether it threw
  superseded,      \* ids of the elements after whose creation a public call was made
  lastClick,       \* what the last click on a filter item did (calls on the collaborators)
  appViewer,       \* window.PDFViewerApplication: "none", "nopages" or "pages"
  linkViewer,      \* linkService.pdfViewer is set
  projection,      \* last overlay box computed for a (rectangle, transform) input
  filterViewer,    \* PDFFilterViewer: its fields, its container, its loads in flight
  tabManager,      \* PDFTabManager: its fields and the tab elements of the page
  iconRun          \* the icon generator: its progress, its counters, the images of Contents.json

vars == <<currentOverlay, elements, timers, rafQueue, nCalls, turn, superseded,
          lastClick, appViewer, linkViewer, projection,
          filterViewer, tabManager, iconRun>>

\* the state of FilterHighlightOverlay and PDFFilterView
overlayVars == <<currentOverlay, elements, timers, rafQueue, nCalls, turn, superseded,
                 lastClick, appViewer, linkViewer, projection>>

----------------------------------------------------------------------------
(* Bounds and program constants *)

\* number of public calls (showHighlight, clearHighlight) and clicks explored
MaxCalls == 3

\* setTimeout delay of the settle callback, in ms
SettleDelay == 500

\* setTimeout delay of the fade callback, in ms
FadeDelay == 300

\* time advances on a 100 ms grid, a common divisor of both delays
TimeStep == FadeDelay \div 3

----------------------------------------------------------------------------
(* JavaScript values: numbers, undefined and NaN *)

Num(n) == [t |-> "num", v |-> n]

Undef == [t |-> "undef", v |-> 0]

NaN == [t |-> "nan", v |-> 0]

IsNum(a) == a.t = "num"

\* a + b on numbers; undefined or NaN operands give NaN
JsAdd(a, b) == IF IsNum(a) /\ IsNum(b) THEN Num(a.v + b.v) ELSE NaN

\* a - b
JsSub(a, b) == IF IsNum(a) /\ IsNum(b) THEN Num(a.v - b.v) ELSE NaN

\* a * b
JsMul(a, b) == IF IsNum(a) /\ IsNum(b) THEN Num(a.v * b.v) ELSE NaN

\* Math.min(a, b)
JsMin(a, b) == IF IsNum(a) /\ IsNum(b) THEN Num(IF a.v <= b.v THEN a.v ELSE b.v) ELSE NaN

\* Math.abs(a)
JsAbs(a) == IF IsNum(a) THEN Num(IF a.v < 0 THEN -a.v ELSE a.v) ELSE NaN

\* a CSS length property after  style.prop = `${v}px` : the assignment of a
\* value that does not parse ("NaNpx", or a negative width/height) is ignored
\* and the property stays unset
Unset == [set |-> FALSE, px |-> 0]

PxLength(v, allowNegative) ==
  IF IsNum(v) /\ (allowNegative \/ v.v >= 0) THEN [set |-> TRUE, px |-> v.v] ELSE Unset

----------------------------------------------------------------------------
(* The page-rendering collaborator *)

\* viewport transforms [a, b, c, d, e, f]
Identity == <<1, 0, 0, 1, 0, 0>>

FlipY == <<1, 0, 0, -1, 0, 100>>

FlipX == <<-1, 0, 0, 1, 100, 0>>

Rot90 == <<0, 1, 1, 0, 0, 0>>

Rot180 == <<-1, 0, 0, -1, 100, 100>>

Scale2FlipY == <<2, 0, 0, -2, 0, 200>>

Transforms == {Identity, FlipY, FlipX, Rot90, Rot180, Scale2FlipY}

\* viewport.convertToViewportPoint(x, y): the affine map of the page viewport
convertToViewportPoint(T, x, y) ==
  << JsAdd(JsAdd(JsMul(Num(T[1]), x), JsMul(Num(T[3]), y)), Num(T[5])),
     JsAdd(JsAdd(JsMul(Num(T[2]), x), JsMul(Num(T[4]), y)), Num(T[6])) >>

\* pdfViewer._pages: the page views; every page view has its div
Pages == << [div |-> TRUE, transform |-> FlipY] >>

PageNumbers == 1 .. (Len(Pages) + 1)

\* #getPageView indexing _pages one entry too low
getPageView_offByOne(viewer, pageNumber) ==
  IF viewer # "pages" THEN 0
  ELSE IF (pageNumber - 2) + 1 \in DOMAIN Pages THEN pageNumber - 1 ELSE 0

\* #getPageView: 0 stands for null / undefined
getPageView(viewer, pageNumber) ==
  IF viewer # "pages" THEN 0
  ELSE IF (pageNumber - 1) + 1 \in DOMAIN Pages THEN pageNumber ELSE 0

----------------------------------------------------------------------------
(* Locations: the argument of showHighlight *)

Loc(x, y, w, h) == [null |-> FALSE, x |-> x, y |-> y, width |-> w, height |-> h]

NullLoc == [null |-> TRUE, x |-> Undef, y |-> Undef, width |-> Undef, height |-> Undef]

ValidLoc == Loc(Num(10), Num(-50), Num(20), Num(-30))

\* height is missing
MalformedLoc == Loc(Num(10), Num(-50), Num(20), Undef)

Locations == {NullLoc, ValidLoc, MalformedLoc}

----------------------------------------------------------------------------
(* FilterHighlightOverlay *)

\* the state the handlers of FilterHighlightOverlay read and write
OverlayState ==
  [cur |-> currentOverlay, els |-> elements, timers |-> timers, raf |-> rafQueue,
   threw |-> FALSE]

SettleTimer(pageNumber, location, call) ==
  [kind |-> "settle", rem |-> SettleDelay, pageNumber |-> pageNumber,
   location |-> location, call |-> call, target |-> 0]

\* target: the overlay whose fade-out the scheduling clearHighlight started (the
\* callback does not capture it: it reads #currentOverlay when it runs)
FadeTimer(call, target) ==
  [kind |-> "fade", rem |-> FadeDelay, pageNumber |-> 0, location |-> NullLoc,
   call |-> call, target |-> target]

\* the box taken from the first transformed corner, without Math.min
overlayBox_noMin(T, location) ==
  LET right == JsAdd(location.x, location.width)
      top == JsAdd(location.y, location.height)
      topLeft == convertToViewportPoint(T, location.x, top)
      bottomRight == convertToViewportPoint(T, right, location.y)
  IN [left   |-> PxLength(topLeft[1], TRUE),
      top    |-> PxLength(topLeft[2], TRUE),
      width  |-> PxLength(JsAbs(JsSub(bottomRight[1], topLeft[1])), FALSE),
      height |-> PxLength(JsAbs(JsSub(bottomRight[2], topLeft[2])), FALSE)]

\* the size taken as a plain difference, without Math.abs
overlayBox_noAbs(T, location) ==
  LET right == JsAdd(location.x, location.width)
      top == JsAdd(location.y, location.height)
      topLeft == convertToViewportPoint(T, location.x, top)
      bottomRight == convertToViewportPoint(T, right, location.y)
  IN [left   |-> PxLength(JsMin(topLeft[1], bottomRight[1]), TRUE),
      top    |-> PxLength(JsMin(topLeft[2], bottomRight[2]), TRUE),
      width  |-> PxLength(JsSub(bottomRight[1], topLeft[1]), FALSE),
      height |-> PxLength(JsSub(bottomRight[2], topLeft[2]), FALSE)]

\* the position and size #createOverlayElement gives the overlay
overlayBox(T, location) ==
  LET x == location.x
      y == location.y
      width == location.width
      height == location.height
      left == x
      bottom == y
      right == JsAdd(x, width)
      top == JsAdd(y, height)
      topLeft == convertToViewportPoint(T, left, top)
      bottomRight == convertToViewportPoint(T, right, bottom)
  IN [left   |-> PxLength(JsMin(topLeft[1], bottomRight[1]), TRUE),
      top    |-> PxLength(JsMin(topLeft[2], bottomRight[2]), TRUE),
      width  |-> PxLength(JsAbs(JsSub(bottomRight[1], topLeft[1])), FALSE),
      height |-> PxLength(JsAbs(JsSub(bottomRight[2], topLeft[2])), FALSE)]

\* #createOverlayElement: the state after it and the element it returns (0: null)
createOverlayElement(st, pageView, location, call) ==
  IF ~Pages[pageView].div THEN [st |-> st, overlay |-> 0]
  ELSE IF location.null
    THEN \* destructuring null throws a TypeError
         [st |-> [st EXCEPT !.threw = TRUE], overlay |-> 0]
    ELSE LET box == overlayBox(Pages[pageView].transform, location)
             id == Len(st.els) + 1
             el == [page |-> pageView, left |-> box.left, top |-> box.top,
                    width |-> box.width, height |-> box.height,
                    opacity |-> "", attached |-> TRUE, call |-> call,
                    location |-> location]
         IN [st |-> [st EXCEPT !.els = Append(@, el), !.raf = Append(@, id)],
             overlay |-> id]

\* clearHighlight removing the element in the turn that starts the fade
clearHighlight_removesAtOnce(st, call) ==
  IF st.cur # 0
    THEN [st EXCEPT !.els[st.cur].opacity = "0", !.els[st.cur].attached = FALSE,
                    !.cur = 0]
    ELSE st

\* clearHighlight scheduling its timer whether or not an overlay exists
clearHighlight_alwaysSchedules(st, call) ==
  IF st.cur # 0
    THEN [st EXCEPT !.els[st.cur].opacity = "0",
                    !.timers = Append(@, FadeTimer(call, st.cur))]
    ELSE [st EXCEPT !.timers = Append(@, FadeTimer(call, st.cur))]

\* clearHighlight, called in turn `call`
clearHighlight(st, call) ==
  IF st.cur # 0
    THEN [st EXCEPT !.els[st.cur].opacity = "0",
                    !.timers = Append(@, FadeTimer(call, st.cur))]
    ELSE st

\* the callback clearHighlight schedules
fadeCallback(st) ==
  IF st.cur # 0
    THEN [st EXCEPT !.els[st.cur].attached = FALSE, !.cur = 0]
    ELSE [st EXCEPT !.cur = 0]

\* showHighlight cancelling the settle timers still pending (clearTimeout)
showHighlight_cancelsPending(st, pageNumber, location, call) ==
  LET s1 == clearHighlight(st, call)
      kept == SelectSeq(s1.timers, LAMBDA t : t.kind # "settle")
  IN [s1 EXCEPT !.timers = Append(kept, SettleTimer(pageNumber, location, call))]

\* showHighlight, called in turn `call`
showHighlight(st, pageNumber, location, call) ==
  LET s1 == clearHighlight(st, call)
  IN [s1 EXCEPT !.timers = Append(@, SettleTimer(pageNumber, location, call))]

\* the callback showHighlight schedules
settleCallback(st, pageNumber, location, call) ==
  LET pageView == getPageView(appViewer, pageNumber)
  IN IF pageView = 0 THEN st
     ELSE LET r == createOverlayElement(st, pageView, location, call)
          IN IF r.overlay # 0 THEN [r.st EXCEPT !.cur = r.overlay] ELSE r.st

\* the requestAnimationFrame callback of #createOverlayElement
fadeInCallback(st, overlay) ==
  [st EXCEPT !.els[overlay].opacity = "1"]

----------------------------------------------------------------------------
(* PDFFilterView *)

\* e[i - 1] of a JavaScript array: undefined past its end
At(e, i) == IF i \in DOMAIN e THEN e[i] ELSE Undef

ArrayLoc(elems) == [kind |-> "array", elems |-> elems]

\* highlightData.location as it comes out of highlights.json
HighlightLocations ==
  { [kind |-> "null", elems |-> <<>>],
    [kind |-> "object", elems |-> <<>>],
    ArrayLoc(<<Num(10), Num(-50), Num(20)>>),
    ArrayLoc(<<Num(10), Num(-50), Num(20), Num(-30)>>),
    ArrayLoc(<<Num(10), Num(-50), Num(20), Undef>>),
    ArrayLoc(<<Num(10), Num(-50), Num(20), Num(-30), Num(0)>>) }

HighlightItems == [page : PageNumbers, location : HighlightLocations]

NoItem == [page |-> 0, location |-> [kind |-> "null", elems |-> <<>>]]

\* #navigateToHighlight accepting an array of any length
navigateToHighlight_noLengthCheck(st, item, call) ==
  LET page == item.page
      location == item.location
  IN IF ~linkViewer
       THEN [st |-> st, goToPage |-> 1, scroll |-> 0, dispatch |-> 0]
     ELSE IF location.kind = "array"
       THEN LET e == location.elems
                evtLocation == Loc(At(e, 1), At(e, 2), At(e, 3), At(e, 4))
            IN [st |-> showHighlight(st, page, evtLocation, call),
                goToPage |-> 0, scroll |-> 1, dispatch |-> 1]
       ELSE [st |-> st, goToPage |-> 1, scroll |-> 0, dispatch |-> 0]

\* #navigateToHighlight: the overlay state after it and the calls it made
navigateToHighlight(st, item, call) ==
  LET page == item.page
      location == item.location
  IN IF ~linkViewer
       THEN [st |-> st, goToPage |-> 1, scroll |-> 0, dispatch |-> 0]
     ELSE IF location.kind = "array" /\ Len(location.elems) = 4
       THEN LET e == location.elems
                evtLocation == Loc(At(e, 1), At(e, 2), At(e, 3), At(e, 4))
            IN \* eventBus.dispatch runs the listener of FilterHighlightOverlay
               [st |-> showHighlight(st, page, evtLocation, call),
                goToPage |-> 0, scroll |-> 1, dispatch |-> 1]
       ELSE [st |-> st, goToPage |-> 1, scroll |-> 0, dispatch |-> 0]

----------------------------------------------------------------------------
(* The components that take no part in a specification keep these values *)

NoFilterViewer ==
  [container |-> <<>>, filterItems |-> <<>>,
   highlightsData |-> [kind |-> "null", items |-> <<>>],
   loads |-> <<>>, nLoads |-> 0, clean |-> FALSE]

NoTabManager == [pc |-> "idle"]

NoIconRun == [pc |-> "idle"]

----------------------------------------------------------------------------
(* The turns of the event loop *)

NoTurn == [op |-> "none", pageNumber |-> 0, call |-> 0, threw |-> FALSE]

NoProjection == [done |-> FALSE, rect |-> <<0, 0, 0, 0>>, T |-> Identity,
                 box |-> [left |-> Unset, top |-> Unset, width |-> Unset, height |-> Unset]]

Commit(st) ==
  /\ currentOverlay' = st.cur
  /\ elements' = st.els
  /\ timers' = st.timers
  /\ rafQueue' = st.raf

Init ==
  /\ currentOverlay = 0
  /\ elements = <<>>
  /\ timers = <<>>
  /\ rafQueue = <<>>
  /\ nCalls = 0
  /\ turn = NoTurn
  /\ superseded = {}
  /\ lastClick = [item |-> NoItem, goToPage |-> 0, scroll |-> 0, dispatch |-> 0]
  /\ appViewer \in {"none", "nopages", "pages"}
  /\ linkViewer = TRUE
  /\ projection = NoProjection
  /\ filterViewer = NoFilterViewer
  /\ tabManager = NoTabManager
  /\ iconRun = NoIconRun

ShowHighlight(pageNumber, location) ==
  /\ nCalls < MaxCalls
  /\ LET st == showHighlight(OverlayState, pageNumber, location, nCalls + 1)
     IN /\ Commit(st)
        /\ turn' = [op |-> "showHighlight", pageNumber |-> pageNumber,
                    call |-> nCalls + 1, threw |-> st.threw]
  /\ nCalls' = nCalls + 1
  /\ superseded' = DOMAIN elements
  /\ UNCHANGED <<lastClick, appViewer, linkViewer, projection, filterViewer, tabManager, iconRun>>

ClearHighlight ==
  /\ nCalls < MaxCalls
  /\ LET st == clearHighlight(OverlayState, nCalls + 1)
     IN /\ Commit(st)
        /\ turn' = [op |-> "clearHighlight", pageNumber |-> 0,
                    call |-> nCalls + 1, threw |-> st.threw]
  /\ nCalls' = nCalls + 1
  /\ superseded' = DOMAIN elements
  /\ UNCHANGED <<lastClick, appViewer, linkViewer, projection, filterViewer, tabManager, iconRun>>

\* anchor.onclick of a filter item
Click(item) ==
  /\ nCalls < MaxCalls
  /\ LET r == navigateToHighlight(OverlayState, item, nCalls + 1)
     IN /\ Commit(r.st)
        /\ turn' = [op |-> "click", pageNumber |-> item.page,
                    call |-> nCalls + 1, threw |-> r.st.threw]
        /\ superseded' = IF r.dispatch > 0 THEN DOMAIN elements ELSE superseded
        /\ lastClick' = [item |-> item, goToPage |-> r.goToPage, scroll |-> r.scroll,
                         dispatch |-> r.dispatch]
  /\ nCalls' = nCalls + 1
  /\ UNCHANGED <<appViewer, linkViewer, projection, filterViewer, tabManager, iconRun>>

RemoveAt(s, i) == [j \in 1 .. (Len(s) - 1) |-> IF j < i THEN s[j] ELSE s[j + 1]]

Delay(kind) == IF kind = "settle" THEN SettleDelay ELSE FadeDelay

\* a due timer may run unless a due timer that was scheduled before it, with a
\* delay no longer than its own, has not run yet
MayRun(i) ==
  /\ timers[i].rem = 0
  /\ \A j \in 1 .. (i - 1) :
       ~(timers[j].rem = 0 /\ Delay(timers[j].kind) <= Delay(timers[i].kind))

SettleFires(i) ==
  /\ timers[i].kind = "settle"
  /\ MayRun(i)
  /\ LET t == timers[i]
         st0 == [OverlayState EXCEPT !.timers = RemoveAt(@, i)]
         st == settleCallback(st0, t.pageNumber, t.location, t.call)
     IN /\ Commit(st)
        /\ turn' = [op |-> "settle", pageNumber |-> t.pageNumber,
                    call |-> t.call, threw |-> st.threw]
  /\ UNCHANGED <<nCalls, superseded, lastClick, appViewer, linkViewer, projection, filterViewer, tabManager, iconRun>>

FadeFires(i) ==
  /\ timers[i].kind = "fade"
  /\ MayRun(i)
  /\ LET t == timers[i]
         st0 == [OverlayState EXCEPT !.timers = RemoveAt(@, i)]
         st == fadeCallback(st0)
     IN /\ Commit(st)
        /\ turn' = [op |-> "fade", pageNumber |-> 0,
                    call |-> t.call, threw |-> st.threw]
  /\ UNCHANGED <<nCalls, superseded, lastClick, appViewer, linkViewer, projection, filterViewer, tabManager, iconRun>>

AnimationFrame ==
  /\ rafQueue # <<>>
  /\ LET st0 == [OverlayState EXCEPT !.raf = Tail(@)]
         st == fadeInCallback(st0, Head(rafQueue))
     IN /\ Commit(st)
        /\ turn' = [op |-> "raf", pageNumber |-> 0,
                    call |-> elements[Head(rafQueue)].call, threw |-> st.threw]
  /\ UNCHANGED <<nCalls, superseded, lastClick, appViewer, linkViewer, projection, filterViewer, tabManager, iconRun>>

\* TimeStep ms pass: no timer is due and no animation frame is pending
Tick ==
  /\ timers # <<>>
  /\ rafQueue = <<>>
  /\ \A i \in DOMAIN timers : timers[i].rem >= TimeStep
  /\ timers' = [i \in DOMAIN timers |-> [timers[i] EXCEPT !.rem = @ - TimeStep]]
  /\ UNCHANGED <<currentOverlay, elements, rafQueue, nCalls, turn, superseded,
                 lastClick, appViewer, linkViewer, projection, filterViewer, tabManager, iconRun>>

Next ==
  \/ \E pageNumber \in PageNumbers, location \in Locations :
       ShowHighlight(pageNumber, location)
  \/ ClearHighlight
  \/ \E i \in DOMAIN timers : SettleFires(i)
  \/ \E i \in DOMAIN timers : FadeFires(i)
  \/ AnimationFrame
  \/ Tick

\* the overlay driven through its public operations
Spec == Init /\ [][Next]_vars

InitClick ==
  /\ currentOverlay = 0
  /\ elements = <<>>
  /\ timers = <<>>
  /\ rafQueue = <<>>
  /\ nCalls = 0
  /\ turn = NoTurn
  /\ superseded = {}
  /\ lastClick = [item |-> NoItem, goToPage |-> 0, scroll |-> 0, dispatch |-> 0]
  /\ appViewer = "pages"
  /\ linkViewer \in BOOLEAN
  /\ projection = NoProjection
  /\ filterViewer = NoFilterViewer
  /\ tabManager = NoTabManager
  /\ iconRun = NoIconRun

NextClick ==
  \/ \E item \in HighlightItems : Click(item)
  \/ \E i \in DOMAIN timers : SettleFires(i)
  \/ \E i \in DOMAIN timers : FadeFires(i)
  \/ AnimationFrame
  \/ Tick

\* the overlay driven by clicks on the items of the filter panel
SpecClick == InitClick /\ [][NextClick]_vars

----------------------------------------------------------------------------
(* The coordinate transform on its own *)

CoordVals == {-50, -30, 0, 10, 20}

Rects == CoordVals \X CoordVals \X CoordVals \X CoordVals

InitBox ==
  /\ currentOverlay = 0
  /\ elements = <<>>
  /\ timers = <<>>
  /\ rafQueue = <<>>
  /\ nCalls = 0
  /\ turn = NoTurn
  /\ superseded = {}
  /\ lastClick = [item |-> NoItem, goToPage |-> 0, scroll |-> 0, dispatch |-> 0]
  /\ appViewer = "pages"
  /\ linkViewer = TRUE
  /\ projection = NoProjection
  /\ filterViewer = NoFilterViewer
  /\ tabManager = NoTabManager
  /\ iconRun = NoIconRun

\* the box #createOverlayElement computes on a page whose viewport transform is T
Project(rect, T) ==
  /\ ~projection.done
  /\ projection' = [done |-> TRUE, rect |-> rect, T |-> T,
                    box |-> overlayBox(T, Loc(Num(rect[1]), Num(rect[2]),
                                              Num(rect[3]), Num(rect[4])))]
  /\ UNCHANGED <<currentOverlay, elements, timers, rafQueue, nCalls, turn, superseded,
                 lastClick, appViewer, linkViewer, filterViewer, tabManager, iconRun>>

NextBox == \E rect \in Rects, T \in Transforms : Project(rect, T)

SpecBox == InitBox /\ [][NextBox]_vars

----------------------------------------------------------------------------
(* PDFFilterViewer *)

\* number of loadHighlights calls explored
MaxLoads == 3

\* what response.json() can resolve with
Highlight == [page |-> 1, location |-> ArrayLoc(<<Num(10), Num(-50), Num(20), Num(-30)>>)]

NullData == [kind |-> "null", items |-> <<>>]

ObjectData == [kind |-> "object", items |-> <<>>]

ArrayData(items) == [kind |-> "array", items |-> items]

DataValues ==
  {NullData, ObjectData, ArrayData(<<>>), ArrayData(<<Highlight>>),
   ArrayData(<<Highlight, Highlight>>)}

\* the children of the container
AnchorNode(id) == [kind |-> "anchor", id |-> id]

MessageNode == [kind |-> "message", id |-> 0]

ErrorNode == [kind |-> "error", id |-> 0]

\* item.destroy() for every filter item: each anchor leaves the container
destroyAll(fv) ==
  [fv EXCEPT !.container =
     SelectSeq(@, LAMBDA c : ~(c.kind = "anchor"
                               /\ \E k \in DOMAIN fv.filterItems : fv.filterItems[k] = c.id))]

\* #render: the viewer after it, and whether it threw
render(fv) ==
  LET cleared == [destroyAll([fv EXCEPT !.container = <<>>]) EXCEPT !.filterItems = <<>>]
      data == fv.highlightsData
  IN IF data.kind = "null" \/ (data.kind = "array" /\ Len(data.items) = 0)
       THEN [fv |-> [cleared EXCEPT !.container = <<MessageNode>>], threw |-> FALSE]
     ELSE IF data.kind # "array"
       THEN \* forEach is not a function
            [fv |-> cleared, threw |-> TRUE]
       ELSE [fv |-> [cleared EXCEPT
                       !.container = [i \in 1 .. Len(data.items) |-> AnchorNode(i)],
                       !.filterItems = [i \in 1 .. Len(data.items) |-> i]],
             threw |-> FALSE]

\* #renderError
renderError(fv) == [fv EXCEPT !.container = Append(@, ErrorNode)]

\* reset
reset(fv) ==
  LET destroyed == destroyAll([fv EXCEPT !.highlightsData = NullData])
  IN [destroyed EXCEPT !.filterItems = <<>>, !.container = <<>>]

\* loadHighlights up to its first await
loadHighlightsCall(fv) ==
  [fv EXCEPT !.loads = Append(@, [stage |-> "fetch", stale |-> FALSE]),
             !.nLoads = @ + 1]

\* loadHighlights after fetch settled: "ok", "notok" (response.ok false) or "reject"
loadHighlightsAfterFetch(fv, i, outcome) ==
  IF outcome = "ok"
    THEN [fv EXCEPT !.loads[i].stage = "json"]
    ELSE renderError([fv EXCEPT !.loads = RemoveAt(@, i)])

\* loadHighlights after response.json() settled with `data`, or rejected
loadHighlightsAfterJson(fv, i, rejected, data) ==
  LET rest == [fv EXCEPT !.loads = RemoveAt(@, i)]
  IN IF rejected THEN renderError(rest)
     ELSE LET r == render([rest EXCEPT !.highlightsData = data])
          IN IF r.threw THEN renderError(r.fv) ELSE r.fv

InitViewer ==
  /\ currentOverlay = 0
  /\ elements = <<>>
  /\ timers = <<>>
  /\ rafQueue = <<>>
  /\ nCalls = 0
  /\ turn = NoTurn
  /\ superseded = {}
  /\ lastClick = [item |-> NoItem, goToPage |-> 0, scroll |-> 0, dispatch |-> 0]
  /\ appViewer = "pages"
  /\ linkViewer = TRUE
  /\ projection = NoProjection
  /\ filterViewer = NoFilterViewer
  /\ tabManager = NoTabManager
  /\ iconRun = NoIconRun

LoadHighlights ==
  /\ filterViewer.nLoads < MaxLoads
  /\ filterViewer' = loadHighlightsCall(filterViewer)
  /\ UNCHANGED <<overlayVars, tabManager, iconRun>>

\* a load that completes is one made after the last reset, or a stale one
Completed(fv, i) == IF filterViewer.loads[i].stale THEN fv ELSE [fv EXCEPT !.clean = FALSE]

FetchSettles(i, outcome) ==
  /\ filterViewer.loads[i].stage = "fetch"
  /\ LET fv == loadHighlightsAfterFetch(filterViewer, i, outcome)
     IN filterViewer' = IF outcome = "ok" THEN fv ELSE Completed(fv, i)
  /\ UNCHANGED <<overlayVars, tabManager, iconRun>>

JsonSettles(i, rejected, data) ==
  /\ filterViewer.loads[i].stage = "json"
  /\ filterViewer' = Completed(loadHighlightsAfterJson(filterViewer, i, rejected, data), i)
  /\ UNCHANGED <<overlayVars, tabManager, iconRun>>

Reset ==
  /\ LET fv == reset(filterViewer)
     IN filterViewer' =
          [fv EXCEPT !.clean = TRUE,
                     !.loads = [i \in DOMAIN fv.loads |-> [fv.loads[i] EXCEPT !.stale = TRUE]]]
  /\ UNCHANGED <<overlayVars, tabManager, iconRun>>

NextViewer ==
  \/ LoadHighlights
  \/ \E i \in DOMAIN filterViewer.loads, outcome \in {"ok", "notok", "reject"} :
       FetchSettles(i, outcome)
  \/ \E i \in DOMAIN filterViewer.loads, rejected \in BOOLEAN, data \in DataValues :
       JsonSettles(i, rejected, data)
  \/ Reset

SpecViewer == InitViewer /\ [][NextViewer]_vars

----------------------------------------------------------------------------
(* PDFTabManager *)

TabNumbers == {1, 2}

OtherTab(n) == IF n = 1 THEN 2 ELSE 1

\* an iframe's src: not set, set by the page, or set by init; with or without
\* the disableAutoFetch parameter
NoSrc == [file |-> "none", disableAutoFetch |-> FALSE]

PageSrcs == {NoSrc, [file |-> "page", disableAutoFetch |-> FALSE],
             [file |-> "page", disableAutoFetch |-> TRUE]}

\* the manager after its constructor, on a page whose markup and URL are `env`
constructed(env) ==
  [pc |-> "constructed",
   currentTab |-> 1,
   button |-> <<FALSE, FALSE>>,        \* tabs[n].button is not null
   frame |-> <<FALSE, FALSE>>,         \* tabs[n].frame is not null
   loaded |-> <<FALSE, FALSE>>,
   listeners |-> FALSE,                \* the click listeners are bound
   inIframe |-> env.inIframe,
   hasTabMode |-> env.hasTabMode, hasOuter |-> env.hasOuter,
   hasButton |-> env.hasButton, hasFrame |-> env.hasFrame,
   param |-> env.param,                \* the URL has pdf1 / pdf2
   tabModeDisplay |-> "", outerDisplay |-> "",
   display |-> env.display,            \* style.display of the two iframes
   active |-> env.active,              \* the buttons carry the class 'active'
   emphasis |-> <<"", "">>,            \* opacity / border / weight set on the buttons
   src |-> env.src]

TabEnvs ==
  [inIframe : BOOLEAN, hasTabMode : BOOLEAN, hasOuter : BOOLEAN,
   hasButton : [TabNumbers -> BOOLEAN], hasFrame : [TabNumbers -> BOOLEAN],
   param : [TabNumbers -> BOOLEAN],
   display : [TabNumbers -> {"", "none", "block"}],
   active : [TabNumbers -> BOOLEAN],
   src : [TabNumbers -> PageSrcs]]

\* switchToTab
switchToTab(tm, tabNumber) ==
  IF tm.currentTab = tabNumber THEN tm
  ELSE LET cur == tm.currentTab
           hidden == IF tm.frame[cur] THEN [tm EXCEPT !.display[cur] = "none"] ELSE tm
           shown == IF hidden.frame[tabNumber]
                      THEN [hidden EXCEPT !.display[tabNumber] = "block"] ELSE hidden
           dimmed == IF shown.button[cur]
                       THEN [shown EXCEPT !.active[cur] = FALSE, !.emphasis[cur] = "dim"]
                       ELSE shown
           lit == IF dimmed.button[tabNumber]
                    THEN [dimmed EXCEPT !.active[tabNumber] = TRUE,
                                        !.emphasis[tabNumber] = "bright"]
                    ELSE dimmed
       IN [lit EXCEPT !.currentTab = tabNumber, !.loaded[tabNumber] = TRUE]

\* the src init gives the iframe of tab n
initSrc(tm, n) ==
  IF tm.param[n] THEN [file |-> "param", disableAutoFetch |-> TRUE]
  ELSE IF tm.src[n].file # "none" THEN [tm.src[n] EXCEPT !.disableAutoFetch = TRUE]
  ELSE [file |-> "default", disableAutoFetch |-> TRUE]

\* init
init(tm) ==
  IF tm.inIframe
    THEN [tm EXCEPT !.pc = "iframe",
                    !.tabModeDisplay = IF tm.hasTabMode THEN "none" ELSE @,
                    !.outerDisplay = IF tm.hasOuter THEN "block" ELSE @]
    ELSE LET top == [tm EXCEPT !.tabModeDisplay = IF tm.hasTabMode THEN "block" ELSE @,
                               !.outerDisplay = IF tm.hasOuter THEN "none" ELSE @,
                               !.button = <<tm.hasButton[1], tm.hasButton[2]>>,
                               !.frame = <<tm.hasFrame[1], tm.hasFrame[2]>>]
         IN IF ~(top.button[1] /\ top.button[2] /\ top.frame[1] /\ top.frame[2])
              THEN [top EXCEPT !.pc = "missing"]
              ELSE LET bound == [top EXCEPT !.listeners = TRUE,
                                            !.src = [n \in TabNumbers |-> initSrc(top, n)]]
                   IN [switchToTab(bound, 1) EXCEPT !.pc = "ready"]

InitTabs ==
  /\ currentOverlay = 0
  /\ elements = <<>>
  /\ timers = <<>>
  /\ rafQueue = <<>>
  /\ nCalls = 0
  /\ turn = NoTurn
  /\ superseded = {}
  /\ lastClick = [item |-> NoItem, goToPage |-> 0, scroll |-> 0, dispatch |-> 0]
  /\ appViewer = "pages"
  /\ linkViewer = TRUE
  /\ projection = NoProjection
  /\ filterViewer = NoFilterViewer
  /\ tabManager \in {constructed(env) : env \in TabEnvs}
  /\ iconRun = NoIconRun

\* tabManager.init(), run once when the document is ready
TabInit ==
  /\ tabManager.pc = "constructed"
  /\ tabManager' = init(tabManager)
  /\ UNCHANGED <<overlayVars, filterViewer, iconRun>>

\* a click on the button of tab n
TabClick(n) ==
  /\ tabManager.listeners
  /\ tabManager' = switchToTab(tabManager, n)
  /\ UNCHANGED <<overlayVars, filterViewer, iconRun>>

NextTabs ==
  \/ TabInit
  \/ \E n \in TabNumbers : TabClick(n)

SpecTabs == InitTabs /\ [][NextTabs]_vars

----------------------------------------------------------------------------
(* The iOS icon generator *)

\* iOSIconSizes; `group` is the section of the list the entry stands in
\* ("App Icon - iPhone", "App Icon - iPad", "App Store")
iOSIconSizes ==
  << [name |-> "Icon-App-20x20@2x.png", size |-> 40, group |-> "iphone"],
     [name |-> "Icon-App-20x20@3x.png", size |-> 60, group |-> "iphone"],
     [name |-> "Icon-App-29x29@2x.png", size |-> 58, group |-> "iphone"],
     [name |-> "Icon-App-29x29@3x.png", size |-> 87, group |-> "iphone"],
     [name |-> "Icon-App-40x40@2x.png", size |-> 80, group |-> "iphone"],
     [name |-> "Icon-App-40x40@3x.png", size |-> 120, group |-> "iphone"],
     [name |-> "Icon-App-60x60@2x.png", size |-> 120, group |-> "iphone"],
     [name |-> "Icon-App-60x60@3x.png", size |-> 180, group |-> "iphone"],
     [name |-> "Icon-App-20x20@1x.png", size |-> 20, group |-> "ipad"],
     [name |-> "Icon-App-20x20@2x.png", size |-> 40, group |-> "ipad"],
     [name |-> "Icon-App-29x29@1x.png", size |-> 29, group |-> "ipad"],
     [name |-> "Icon-App-29x29@2x.png", size |-> 58, group |-> "ipad"],
     [name |-> "Icon-App-40x40@1x.png", size |-> 40, group |-> "ipad"],
     [name |-> "Icon-App-40x40@2x.png", size |-> 80, group |-> "ipad"],
     [name |-> "Icon-App-76x76@1x.png", size |-> 76, group |-> "ipad"],
     [name |-> "Icon-App-76x76@2x.png", size |-> 152, group |-> "ipad"],
     [name |-> "Icon-App-83.5x83.5@2x.png", size |-> 167, group |-> "ipad"],
     [name |-> "Icon-App-1024x1024@1x.png", size |-> 1024, group |-> "ios-marketing"] >>

\* String.prototype.includes
Includes(str, sub) ==
  \E i \in 1 .. (Len(str) - Len(sub) + 1) : SubSeq(str, i, i + Len(sub) - 1) = sub

\* getIconIdiom
getIconIdiom(filename) ==
  IF Includes(filename, "83.5") THEN "ipad"
  ELSE IF Includes(filename, "76") THEN "ipad"
  ELSE IF Includes(filename, "1024") THEN "ios-marketing"
  ELSE IF Includes(filename, "@1x") THEN "ipad"
  ELSE "iphone"

\* getIconScale
getIconScale(filename) ==
  IF Includes(filename, "@3x") THEN "3x"
  ELSE IF Includes(filename, "@2x") THEN "2x"
  ELSE "1x"

CharAt(str, i) == IF i \in 1 .. Len(str) THEN SubSeq(str, i, i) ELSE ""

IsDigit(c) == c \in {"0", "1", "2", "3", "4", "5", "6", "7", "8", "9"}

\* the index after the longest run of digits that starts at i  (\d+ , greedy)
RECURSIVE DigitsEnd(_, _)
DigitsEnd(str, i) == IF IsDigit(CharAt(str, i)) THEN DigitsEnd(str, i + 1) ELSE i

\* the index after  \d+(?:\.\d+)?  matched at i; i when it does not match
NumberEnd(str, i) ==
  LET j == DigitsEnd(str, i)
  IN IF j = i THEN i
     ELSE IF CharAt(str, j) = "." /\ DigitsEnd(str, j + 1) > j + 1
       THEN DigitsEnd(str, j + 1)
       ELSE j

\* /(\d+(?:\.\d+)?)x(\d+(?:\.\d+)?)/ matches at i
SizeMatchesAt(str, i) ==
  LET e == NumberEnd(str, i)
  IN e > i /\ CharAt(str, e) = "x" /\ NumberEnd(str, e + 1) > e + 1

\* getIconSize
getIconSize(filename) ==
  IF \E i \in 1 .. Len(filename) : SizeMatchesAt(filename, i)
    THEN LET i == CHOOSE k \in 1 .. Len(filename) :
                    /\ SizeMatchesAt(filename, k)
                    /\ \A m \in 1 .. (k - 1) : ~SizeMatchesAt(filename, m)
             e == NumberEnd(filename, i)
         IN SubSeq(filename, i, e - 1) \o "x" \o SubSeq(filename, e + 1, NumberEnd(filename, e + 1) - 1)
    ELSE "20x20"

\* the images of Contents.json
contentsImages ==
  [k \in DOMAIN iOSIconSizes |->
     [filename |-> iOSIconSizes[k].name,
      idiom |-> getIconIdiom(iOSIconSizes[k].name),
      scale |-> getIconScale(iOSIconSizes[k].name),
      size |-> getIconSize(iOSIconSizes[k].name)]]

\* what sharp(inputPath).metadata() can report: [width, height]
SourceSizes == {<<1024, 1024>>, <<2048, 2048>>, <<40, 40>>, <<120, 80>>}

iconRunStart ==
  [pc |-> "start", meta |-> <<0, 0>>, warned |-> FALSE, next |-> 1,
   successCount |-> 0, failCount |-> 0, copiedCount |-> 0,
   images |-> <<>>, exitCode |-> 0]

\* main up to the loop: the arguments, the source file, the output directory,
\* the metadata
mainStart(run, nArgs, inputExists, mkdirOk, metaOk, meta) ==
  IF nArgs = 0 \/ ~inputExists \/ ~mkdirOk \/ ~metaOk
    THEN [run EXCEPT !.pc = "exited", !.exitCode = 1]
    ELSE [run EXCEPT !.pc = "loop", !.meta = meta,
                     !.warned = (meta[1] < 1024 \/ meta[2] < 1024)]

\* one iteration of the loop of main: generateIcon for the next entry
mainLoopStep(run, ok) ==
  LET icon == iOSIconSizes[run.next]
      wasCopied == run.meta[1] = icon.size /\ run.meta[2] = icon.size
      counted ==
        IF ok
          THEN [run EXCEPT !.successCount = @ + 1,
                           !.copiedCount = IF wasCopied THEN @ + 1 ELSE @]
          ELSE [run EXCEPT !.failCount = @ + 1]
  IN [counted EXCEPT !.next = @ + 1,
                     !.pc = IF run.next = Len(iOSIconSizes) THEN "contents" ELSE "loop"]

\* generateContentsJson, and the end of main
generateContentsJson(run, ok) ==
  IF ok
    THEN [run EXCEPT !.pc = "done", !.images = contentsImages]
    ELSE [run EXCEPT !.pc = "exited", !.exitCode = 1]

InitIcons ==
  /\ currentOverlay = 0
  /\ elements = <<>>
  /\ timers = <<>>
  /\ rafQueue = <<>>
  /\ nCalls = 0
  /\ turn = NoTurn
  /\ superseded = {}
  /\ lastClick = [item |-> NoItem, goToPage |-> 0, scroll |-> 0, dispatch |-> 0]
  /\ appViewer = "pages"
  /\ linkViewer = TRUE
  /\ projection = NoProjection
  /\ filterViewer = NoFilterViewer
  /\ tabManager = NoTabManager
  /\ iconRun = iconRunStart

MainStart(nArgs, inputExists, mkdirOk, metaOk, meta) ==
  /\ iconRun.pc = "start"
  /\ iconRun' = mainStart(iconRun, nArgs, inputExists, mkdirOk, metaOk, meta)
  /\ UNCHANGED <<overlayVars, filterViewer, tabManager>>

GenerateIcon(ok) ==
  /\ iconRun.pc = "loop"
  /\ iconRun' = mainLoopStep(iconRun, ok)
  /\ UNCHANGED <<overlayVars, filterViewer, tabManager>>

GenerateContentsJson(ok) ==
  /\ iconRun.pc = "contents"
  /\ iconRun' = generateContentsJson(iconRun, ok)
  /\ UNCHANGED <<overlayVars, filterViewer, tabManager>>

NextIcons ==
  \/ \E nArgs \in 0 .. 2, inputExists \in BOOLEAN, mkdirOk \in BOOLEAN,
        metaOk \in BOOLEAN, meta \in SourceSizes :
       MainStart(nArgs, inputExists, mkdirOk, metaOk, meta)
  \/ \E ok \in BOOLEAN : GenerateIcon(ok)
  \/ \E ok \in BOOLEAN : GenerateContentsJson(ok)

SpecIcons == InitIcons /\ [][NextIcons]_vars

----------------------------------------------------------------------------
(* Properties *)

\* the overlay elements that are in the DOM
Attached == {i \in DOMAIN elements : elements[i].attached}

\* no page view for the page number: no viewer, no _pages, or no entry at
\* index pageNumber - 1
Unresolved(pageNumber) ==
  appViewer # "pages" \/ (pageNumber - 1) \notin 0 .. (Len(Pages) - 1)

\* a location object whose x, y, width and height are all numbers
WellFormed(location) ==
  /\ ~location.null
  /\ IsNum(location.x) /\ IsNum(location.y)
  /\ IsNum(location.width) /\ IsNum(location.height)

\* this step is a public call of showHighlight
IsShowCall == nCalls' = nCalls + 1 /\ turn'.op = "showHighlight"

\* this step is a public call of clearHighlight
IsClearCall == nCalls' = nCalls + 1 /\ turn'.op = "clearHighlight"

\* this step runs a settle callback
IsSettleTurn == nCalls' = nCalls /\ turn'.op = "settle" /\ Len(timers') = Len(timers) - 1

\* this step runs a fade callback
IsFadeTurn == nCalls' = nCalls /\ turn'.op = "fade" /\ Len(timers') = Len(timers) - 1

\* C1: in every reachable state at most one overlay element is in the DOM,
\* whatever the interleaving of showHighlight, clearHighlight and their timers
C1_AtMostOneOverlay == Cardinality(Attached) <= 1

\* C2: once every pending timer has fired, no overlay element after whose
\* insertion a showHighlight or clearHighlight call was made is still in the DOM
C2_SupersededOverlayRemoved ==
  (timers = <<>> /\ rafQueue = <<>>) => (superseded \cap Attached = {})

\* C3: a clearHighlight call on an existing overlay sets its opacity to 0 and
\* leaves it in the DOM in that turn; an element leaves the DOM only in a later
\* turn that runs a fade callback, never in the turn of a call
C3_FadeStartsBeforeRemoval ==
  [][ /\ ((IsClearCall \/ IsShowCall) /\ currentOverlay # 0) =>
           /\ elements'[currentOverlay].opacity = "0"
           /\ elements'[currentOverlay].attached
           /\ Attached' = Attached
      /\ (Attached' # Attached /\ Len(elements') = Len(elements)) =>
           /\ IsFadeTurn
           /\ Attached' \subseteq Attached
    ]_vars

C3_Witness ==
  /\ turn.op = "fade"
  /\ \E i \in DOMAIN elements : ~elements[i].attached /\ elements[i].opacity = "0"

\* C4: clearHighlight with #currentOverlay null does not throw, changes no
\* element, schedules no timer and leaves #currentOverlay null
C4_ClearWithoutOverlayIsNoOp ==
  [][ (IsClearCall /\ currentOverlay = 0) =>
        /\ ~turn'.threw
        /\ UNCHANGED <<currentOverlay, elements, timers, rafQueue>>
    ]_vars

C4_Witness ==
  /\ turn.op = "clearHighlight"
  /\ nCalls >= 2
  /\ currentOverlay = 0
  /\ timers = <<>>

\* C5 as stated: showHighlight with an unresolved page number mutates no
\* element, at the call or when its settle timer fires, and does not throw,
\* whether or not an overlay exists
C5_UnresolvedPageNoMutation ==
  [][ /\ (IsShowCall /\ Unresolved(turn'.pageNumber)) =>
           (~turn'.threw /\ elements' = elements)
      /\ (IsSettleTurn /\ Unresolved(turn'.pageNumber)) =>
           (~turn'.threw /\ elements' = elements)
    ]_vars

\* C5 amended: showHighlight with an unresolved page number never inserts an
\* element and never throws, at the call or when its settle timer fires; the
\* settle callback mutates nothing; the call mutates nothing when no overlay
\* exists, and otherwise only starts the fade of the existing overlay
C5_UnresolvedPageInsertsNothing ==
  [][ /\ (IsShowCall /\ Unresolved(turn'.pageNumber)) =>
           /\ ~turn'.threw
           /\ Len(elements') = Len(elements)
           /\ Attached' = Attached
           /\ currentOverlay' = currentOverlay
           /\ \A i \in DOMAIN elements : i # currentOverlay => elements'[i] = elements[i]
           /\ currentOverlay = 0 => Len(timers') = Len(timers) + 1
      /\ (IsSettleTurn /\ Unresolved(turn'.pageNumber)) =>
           /\ ~turn'.threw
           /\ elements' = elements
           /\ currentOverlay' = currentOverlay
    ]_vars

C5_Witness ==
  /\ turn.op = "settle"
  /\ appViewer = "pages"
  /\ Unresolved(turn.pageNumber)
  /\ Attached # {}

\* C6: no overlay element is ever created for a location that is null or
\* lacks a numeric x, y, width or height
C6_NoOverlayForBadLocation ==
  \A i \in DOMAIN elements : WellFormed(elements[i].location)

\* the reference projection of a rectangle under the transform T
RefPoint(T, x, y) == << T[1] * x + T[3] * y + T[5], T[2] * x + T[4] * y + T[6] >>

Min2(a, b) == IF a <= b THEN a ELSE b

Dist(a, b) == IF a <= b THEN b - a ELSE a - b

RefBox(rect, T) ==
  LET P == RefPoint(T, rect[1], rect[2] + rect[4])
      Q == RefPoint(T, rect[1] + rect[3], rect[2])
  IN [left |-> Min2(P[1], Q[1]), top |-> Min2(P[2], Q[2]),
      width |-> Dist(P[1], Q[1]), height |-> Dist(P[2], Q[2])]

\* C7: the overlay box is the reference projection of the rectangle: the
\* component-wise minimum of the two transformed corners and the absolute
\* differences; the identity maps {10, -50, 20, -30} to (10, -80), (20, 30)
C7_BoxIsReferenceProjection ==
  projection.done =>
    LET ref == RefBox(projection.rect, projection.T)
        box == projection.box
    IN /\ box.left = [set |-> TRUE, px |-> ref.left]
       /\ box.top = [set |-> TRUE, px |-> ref.top]
       /\ box.width = [set |-> TRUE, px |-> ref.width]
       /\ box.height = [set |-> TRUE, px |-> ref.height]
       /\ (projection.rect = <<10, -50, 20, -30>> /\ projection.T = Identity) =>
            (box.left.px = 10 /\ box.top.px = -80 /\ box.width.px = 20 /\ box.height.px = 30)

C7_Witness ==
  /\ projection.done
  /\ projection.rect = <<10, -50, 20, -30>>
  /\ projection.T = Identity
  /\ projection.box.left.px = 10
  /\ projection.box.top.px = -80

\* C8: the overlay's width and height are set and are never negative,
\* whatever the signs of the rectangle and the order of the transformed corners
C8_BoxSizeNonNegative ==
  projection.done =>
    /\ projection.box.width.set /\ projection.box.width.px >= 0
    /\ projection.box.height.set /\ projection.box.height.px >= 0

C8_Witness ==
  /\ projection.done
  /\ projection.T = Rot180
  /\ projection.rect[3] < 0
  /\ projection.rect[4] > 0
  /\ projection.box.width.px > 0
  /\ projection.box.height.px > 0

\* C9: a click dispatches the highlight event (and scrolls) only when the
\* link service has a viewer and the location is an array of exactly 4 entries;
\* otherwise it calls goToPage exactly once and dispatches nothing
C9_ClickDispatchOrPageFallback ==
  lastClick.item # NoItem =>
    IF linkViewer /\ lastClick.item.location.kind = "array"
                  /\ Len(lastClick.item.location.elems) = 4
      THEN lastClick.dispatch = 1 /\ lastClick.scroll = 1 /\ lastClick.goToPage = 0
      ELSE lastClick.dispatch = 0 /\ lastClick.scroll = 0 /\ lastClick.goToPage = 1

C9_Witness ==
  /\ linkViewer
  /\ lastClick.item.location.kind = "array"
  /\ Len(lastClick.item.location.elems) = 5
  /\ lastClick.goToPage = 1
  /\ nCalls >= 2
  /\ elements # <<>>

\* C10: no timer is ever cancelled: a pending timer stays pending until it is
\* due and its own callback runs; and the settle callback of a call with a
\* resolvable page and a well-formed location inserts exactly one element
C10_NoTimerCancelled ==
  [][ \A i \in DOMAIN timers :
        LET t == timers[i]
            pending == \E j \in DOMAIN timers' :
                         timers'[j].kind = t.kind /\ timers'[j].call = t.call
        IN /\ pending \/ (t.rem = 0 /\ nCalls' = nCalls
                              /\ turn'.op = t.kind /\ turn'.call = t.call)
           /\ (~pending /\ t.kind = "settle" /\ ~Unresolved(t.pageNumber)
                         /\ WellFormed(t.location)) =>
                /\ Len(elements') = Len(elements) + 1
                /\ Attached' = Attached \cup {Len(elements')}
                /\ elements'[Len(elements')].call = t.call
    ]_vars

\* C11: a fade callback removes no element other than the one whose fade-out
\* was started by the clearHighlight call that scheduled it
C11_FadeRemovesItsOwnOverlay ==
  [][ IsFadeTurn =>
        \E i \in DOMAIN timers :
          /\ timers[i].kind = "fade"
          /\ timers[i].call = turn'.call
          /\ timers[i].rem = 0
          /\ (Attached \ Attached') \subseteq {timers[i].target}
    ]_vars

\* C12: once reset has returned, the container and #filterItems are empty, and
\* stay so until a loadHighlights call made after that reset completes
C12_ResetStaysEmpty ==
  filterViewer.clean =>
    (filterViewer.container = <<>> /\ filterViewer.filterItems = <<>>)

\* C13: once init has completed with all four elements found, and after any
\* switchToTab calls, the current tab is loaded, its frame has display 'block',
\* its button is 'active', and the other tab's frame is not shown
C13_CurrentTabActivated ==
  tabManager.pc = "ready" =>
    LET cur == tabManager.currentTab
    IN /\ tabManager.loaded[cur]
       /\ tabManager.display[cur] = "block"
       /\ tabManager.active[cur]
       /\ tabManager.display[OtherTab(cur)] # "block"

\* C14: in the Contents.json that generateContentsJson writes, every entry's
\* idiom is the device group its iOSIconSizes entry is listed under, and no two
\* entries have the same filename
C14_IdiomMatchesGroupAndNamesUnique ==
  iconRun.pc = "done" =>
    /\ \A k \in DOMAIN iconRun.images :
         iconRun.images[k].idiom = iOSIconSizes[k].group
    /\ \A j, k \in DOMAIN iconRun.images :
         j # k => iconRun.images[j].filename # iconRun.images[k].filename

C10_Witness ==
  /\ turn.op = "settle"
  /\ \E i, j \in Attached : elements[i].call < elements[j].call

====
